---- MODULE Spec2Model ----
(***************************************************************************)
(* The page-processing pipeline of the audiobook backend                  *)
(* (src/audiobooks/tasks.py, src/audiobooks/views.py): the Book/BookPage   *)
(* ledger, the Celery tasks generate_page_audio, process_book_pdf,         *)
(* cleanup_failed_books and retry_failed_pages, update_book_progress, and  *)
(* the text extraction step of the upload stream.                          *)
(*                                                                         *)
(* A task works on the local copy of the row it read, and Model.save()     *)
(* writes every field of that copy back.  Every database access of a task  *)
(* is a step of its own, except that an access commuting with every step   *)
(* of every other process is joined to the access that follows it: the     *)
(* calls of the synthesizer and of the artifact store touch no row, the    *)
(* read of the book in update_book_progress is followed by reads of the    *)
(* pages only, and the sum of the durations by the write of the book only. *)
(***************************************************************************)
EXTENDS Integers, Sequences, FiniteSets, Bags, TLC

(* ------------------------------ bounds -------------------------------- *)

MaxPages == 2
MaxWorkers == 2
MaxDuration == 1
MaxTime == 180
MaxSweepTime == 60
MaxRetrySweeps == 1
MaxCrashes == 1
\* the other books of the catalogue
MaxOtherBooks == 2
\* the pages of the queried book that are pending, processing, completed, failed
MaxPending == 121
MaxProcessing == 1
MaxCompleted == 29
MaxFailed == 1
\* the accounts, the progress requests served at a time and received in all
MaxUsers == 2
MaxSessions == 2
MaxAsks == 3
\* the listened_time of an update
MaxListened == 1
\* the addresses, the one-time codes and the passwords of the users app
MaxEmails == 2
MaxOtps == 2
MaxPasswords == 2

(* ------------------------- program constants -------------------------- *)

\* @shared_task(bind=True, max_retries=3)
MaxRetries == 3
\* self.retry(exc=e, countdown=60)
Countdown == 60
\* timedelta(hours=2), in seconds
StaleWindow == 7200
\* timedelta(hours=24), in seconds
RetryWindow == 86400

BookId == 1
Pages == 1..MaxPages
Workers == 1..MaxWorkers
Durations == 1..MaxDuration
\* the ids of the other books
OtherBooks == (BookId + 1)..(BookId + MaxOtherBooks)

\* Python's None in an integer column
Null == -1
\* Python's None in a text column
NoError == "None"
NoAudio == <<>>

(* ------------------------------- text --------------------------------- *)

\* A page text is a sequence of characters.
Whitespace == {" ", "\t", "\n"}

RECURSIVE LStrip(_)
LStrip(s) ==
    IF s = <<>> THEN <<>>
    ELSE IF Head(s) \in Whitespace THEN LStrip(Tail(s)) ELSE s

RECURSIVE RStrip(_)
RStrip(s) ==
    IF s = <<>> THEN <<>>
    ELSE IF s[Len(s)] \in Whitespace THEN RStrip(SubSeq(s, 1, Len(s) - 1)) ELSE s

\* str.strip()
Strip(s) == RStrip(LStrip(s))

\* the test forgets strip()
HasNoTextUnstripped(s) == s = <<>>

\* not page.text_content or page.text_content.strip() == ""
HasNoText(s) == s = <<>> \/ Strip(s) = <<>>

\* The texts the extractor hands over: empty, whitespace only, and text.
Texts == {<<>>, <<" ", "\n">>, <<"a", " ">>}

(* ------------------------------ ledger -------------------------------- *)

VARIABLES
    book,       \* the Book row
    pages,      \* page number -> BookPage row of the book
    queue,      \* bag of generate_page_audio messages held by the broker
    workers,    \* worker -> the task execution it runs, with its local copies
    now,        \* the clock (seconds)
    sweeps,     \* retry_failed_pages runs so far
    crashes,    \* worker crashes so far
    returned,   \* what the task execution that ended last returned or raised
    up,         \* the upload request and its event stream
    pdfq,       \* the process_book_pdf messages held by the broker
    pdf,        \* the process_book_pdf execution, with its local copies
    sweeper,    \* the cleanup_failed_books run, with the rows it loaded
    shelf,      \* book id -> Book row of the other books of the catalogue
    failed_at,  \* page number -> when an execution last saved the page failed
    tally,      \* status -> how many pages of the queried book have the status
    reply,      \* the answer of the status query
    listening,  \* <<user, book id>> -> the ListeningProgress rows of the pair
    requests,   \* the progress requests being served, with their local values
    inactive,   \* the ids of the books deleted: is_active = False
    listen_count, \* book id -> listen_count of the Book row
    issued,     \* the pairs with an authenticated read or a valid update of an active book
    asks,       \* progress requests received so far
    accounts,   \* email -> the User row of the email
    outbox,     \* email -> the OTP last sent to the email
    door,       \* the answer of the last signup, verify or login request
    patcher,    \* the PATCH request on the book, with the row it loaded
    lobby       \* is_public and uploader of the book, and the answer of the last query of it

ingest == <<up, pdfq, pdf, sweeper>>

\* the rest of the site: what the audio pipeline of the book never touches
\* the status view
desk == <<tally, reply>>

\* the progress views
player == <<listening, requests, inactive, listen_count, issued, asks>>

\* the users app and what else is outside the audio pipeline and the progress views
annex == <<accounts, outbox, door, patcher, lobby>>

site == <<shelf, failed_at, desk, player, annex>>

vars == <<book, pages, queue, workers, now, sweeps, crashes, returned, ingest, site>>

NoPage ==
    [exists |-> FALSE, text |-> <<>>, status |-> "pending", audio |-> NoAudio,
     duration |-> Null, error |-> NoError, processed_at |-> Null, created_at |-> Null]

\* audio_duration of a page that has no audio: the column is optional
DefaultDuration == Null

\* BookPage.objects.create(book=book, page_number=..., text_content=..., processing_status='pending')
NewPage(text, t) ==
    [exists |-> TRUE, text |-> text, status |-> "pending", audio |-> NoAudio,
     duration |-> DefaultDuration, error |-> NoError, processed_at |-> Null,
     created_at |-> t]

NoBook ==
    [exists |-> FALSE, status |-> "uploaded", progress |-> 0, error |-> NoError,
     total_pages |-> 0, total_duration |-> 0, processed_at |-> Null, modified_at |-> Null]

\* Book.objects.create(..., total_pages=result['total_pages'], processing_status='processing')
NewBook(n, t) ==
    [exists |-> TRUE, status |-> "processing", progress |-> 0, error |-> NoError,
     total_pages |-> n, total_duration |-> 0, processed_at |-> Null, modified_at |-> t]

\* book.save(): every field of the local copy is written, modified_at is stamped
SaveBook(lb, t) == [lb EXCEPT !.modified_at = t]

\* book.pages
PageRows == {p \in Pages : pages[p].exists}

\* book.pages.count()
CountPages == Cardinality(PageRows)

\* book.pages.filter(processing_status='completed').count()
CountCompleted == Cardinality({p \in PageRows : pages[p].status = "completed"})

\* int((completed_pages / total_pages) * 100); the float product agrees with
\* the integer quotient for every total_pages below 50
Progress(c, t) == (100 * c) \div t

RECURSIVE SumDurations(_)
\* sum(page.audio_duration for page in book.pages.all())
SumDurations(S) ==
    IF S = {} THEN 0
    ELSE LET p == CHOOSE q \in S : TRUE
         IN pages[p].duration + SumDurations(S \ {p})

(* ------------------------------ workers ------------------------------- *)

Job(p, r, eta) == [page |-> p, retries |-> r, eta |-> eta]

IdleWorker ==
    [pc |-> "idle", page |-> 0, retries |-> 0, lp |-> NoPage, lb |-> NoBook,
     err |-> NoError, tts |-> FALSE, upload |-> FALSE]

Busy(w) == workers[w].pc # "idle"

NoUpload ==
    [pc |-> "none", auth |-> FALSE, file |-> "none", http |-> 0, n |-> 0,
     extract |-> "none", texts |-> <<>>, buffer |-> <<>>, temp |-> FALSE,
     events |-> <<>>]

IdlePdf ==
    [pc |-> "idle", retries |-> 0, lb |-> NoBook, extract |-> "none",
     texts |-> <<>>, err |-> NoError]

IdleSweeper == [pc |-> "idle", lb |-> NoBook, others |-> [i \in OtherBooks |-> NoBook]]

\* no page has failed
NoFailure == failed_at = [p \in Pages |-> Null]

\* the statuses of a BookPage row
PageStatuses == {"pending", "processing", "completed", "failed"}

\* no status query has been answered
NoReply == [answered |-> FALSE]

\* the status view has not been asked
NoQuery == tally = [st \in PageStatuses |-> 0] /\ reply = NoReply

\* the accounts that send progress requests
Users == 1..MaxUsers

\* who sends requests: the accounts, and 0 for a caller without a valid token
Callers == {0} \cup Users

\* the progress requests the server handles at a time
Sessions == 1..MaxSessions

\* the ids of all books
BookIds == {BookId} \cup OtherBooks

\* a server thread that handles no progress request
IdleRequest ==
    [pc |-> "idle", verb |-> "none", user |-> 0, book |-> 0, page_number |-> 0,
     listened_time |-> 0, row |-> 0, lp |-> <<>>, created |-> FALSE,
     conflict |-> FALSE, http |-> 0]

\* nobody has listened to anything
NoListening ==
    /\ listening = [pair \in Users \X BookIds |-> <<>>]
    /\ requests = [s \in Sessions |-> IdleRequest]
    /\ inactive = {}
    /\ listen_count = [i \in BookIds |-> 0]
    /\ issued = {}
    /\ asks = 0

\* the addresses that sign up
Emails == 1..MaxEmails

\* the codes generate_otp draws
Otps == 1..MaxOtps

\* the passwords a request carries
Passwords == 1..MaxPasswords

\* no row of the users table
NoUser ==
    [exists |-> FALSE, is_verified |-> FALSE, otp |-> Null, otp_created_at |-> Null,
     password |-> Null, created_on |-> Null]

\* no request has been answered
NoAnswer ==
    [view |-> "none", email |-> 0, otp |-> Null, password |-> Null, http |-> 0,
     token |-> FALSE]

\* nobody has signed up
NoAccounts ==
    /\ accounts = [e \in Emails |-> NoUser]
    /\ outbox = [e \in Emails |-> Null]
    /\ door = NoAnswer

\* no PATCH request is being served
NoPatch == patcher = [pc |-> "idle", lb |-> NoBook]

\* what a response tells of a book: nothing
NoBody == [title |-> FALSE, pages |-> {}, processing_status |-> "none"]

\* a book as uploaded by user u with is_public = b, not queried yet
Unvisited(u, b) ==
    [is_public |-> b, uploader |-> u, view |-> "none", caller |-> 0, http |-> 0,
     body |-> NoBody]

\* the catalogue holds the book alone
SiteInit == shelf = [i \in OtherBooks |-> NoBook] /\ NoFailure /\ NoQuery /\ NoListening
            /\ NoAccounts /\ NoPatch /\ lobby = Unvisited(1, FALSE)

\* An uploaded book, its pages created and its audio jobs on the queue.
Init ==
    /\ up = NoUpload
    /\ pdfq = {}
    /\ pdf = IdlePdf
    /\ sweeper = IdleSweeper
    /\ SiteInit
    /\ \E n \in Pages :
         /\ book = NewBook(n, 0)
         /\ pages \in {f \in [Pages -> {NewPage(t, 0) : t \in Texts} \cup {NoPage}] :
                         \A p \in Pages : f[p].exists <=> p <= n}
         /\ queue = SetToBag({Job(p, 0, 0) : p \in 1..n})
    /\ workers = [w \in Workers |-> IdleWorker]
    /\ now = 0
    /\ sweeps = 0
    /\ crashes = 0
    /\ returned = "none"

\* the skip test misspells the status, and never skips
AlreadyProcessedTypo(lp) == lp.status = "complete"

\* the skip test also skips a page that is marked processing
AlreadyProcessedOrRunning(lp) == lp.status \in {"completed", "processing"}

\* if page.processing_status == 'completed': skip
AlreadyProcessed(lp) == lp.status = "completed"

\* A worker takes a message whose eta has come and runs generate_page_audio up
\* to the skip test.
Begin(w) ==
    /\ ~Busy(w)
    /\ \E j \in BagToSet(queue) :
         /\ j.eta <= now
         /\ queue' = queue (-) SetToBag({j})
         /\ LET lp == pages[j.page]
            IN IF ~book.exists \/ ~lp.exists
               THEN /\ returned' = "not_found"
                    /\ UNCHANGED workers
               ELSE IF AlreadyProcessed(lp)
               THEN /\ returned' = "already_processed"
                    /\ UNCHANGED workers
               ELSE /\ workers' = [workers EXCEPT ![w] =
                         [IdleWorker EXCEPT !.pc = "mark", !.page = j.page,
                                            !.retries = j.retries, !.lp = lp]]
                    /\ UNCHANGED returned
    /\ UNCHANGED <<book, pages, now, sweeps, crashes, ingest, site>>

\* page.processing_status = 'processing'; page.save()
MarkProcessing(w) ==
    /\ workers[w].pc = "mark"
    /\ LET lp == [workers[w].lp EXCEPT !.status = "processing"]
       IN /\ pages' = [pages EXCEPT ![workers[w].page] = lp]
          /\ workers' = [workers EXCEPT ![w].lp = lp, ![w].pc = "text"]
    /\ UNCHANGED <<book, queue, now, sweeps, crashes, returned, ingest, site>>

\* the page has no text: completed with 'No text content', success
EmptyText(w) ==
    /\ workers[w].pc = "text"
    /\ HasNoText(workers[w].lp.text)
    /\ pages' = [pages EXCEPT ![workers[w].page] =
                   [workers[w].lp EXCEPT !.status = "completed",
                                         !.error = "No text content"]]
    /\ workers' = [workers EXCEPT ![w] = IdleWorker]
    /\ returned' = "no_text"
    /\ UNCHANGED <<book, queue, now, sweeps, crashes, ingest, site>>

\* TTSGenerator.generate_audio and cloudinary.uploader.upload succeed; the
\* audio is stored on the page, which is saved completed
SynthesizeAndSave(w) ==
    /\ workers[w].pc = "text"
    /\ ~HasNoText(workers[w].lp.text)
    /\ \E d \in Durations :
         LET lp == [workers[w].lp EXCEPT !.audio = <<BookId, workers[w].page>>,
                                         !.duration = d,
                                         !.status = "completed",
                                         !.processed_at = now]
         IN /\ pages' = [pages EXCEPT ![workers[w].page] = lp]
            /\ workers' = [workers EXCEPT ![w].lp = lp, ![w].tts = TRUE,
                                          ![w].upload = TRUE, ![w].pc = "progress"]
    /\ UNCHANGED <<book, queue, now, sweeps, crashes, returned, ingest, site>>

\* The synthesizer reports an error, which is raised, or the upload raises;
\* the except clause reads the page again.
SynthesizeFails(w) ==
    /\ workers[w].pc = "text"
    /\ ~HasNoText(workers[w].lp.text)
    /\ \E e \in {"tts failed", "upload failed"} :
         workers' = [workers EXCEPT ![w].lp = pages[workers[w].page],
                                    ![w].err = e, ![w].tts = TRUE,
                                    ![w].upload = (e = "upload failed"),
                                    ![w].pc = "fail"]
    /\ UNCHANGED <<book, pages, queue, now, sweeps, crashes, returned, ingest, site>>

\* update_book_progress: the book is read, its pages are counted, the progress
\* and the completion are set on the local copy
UbpCount(w) ==
    /\ workers[w].pc = "progress"
    /\ LET t == CountPages
           c == CountCompleted
       IN IF ~book.exists \/ t = 0
          THEN /\ workers' = [workers EXCEPT ![w] = IdleWorker]
               /\ returned' = "success"
          ELSE /\ workers' = [workers EXCEPT
                    ![w].lb = IF c = t
                              THEN [book EXCEPT !.progress = Progress(c, t),
                                                !.status = "completed",
                                                !.processed_at = now]
                              ELSE [book EXCEPT !.progress = Progress(c, t)],
                    ![w].pc = IF c = t THEN "sum" ELSE "save"]
               /\ UNCHANGED returned
    /\ UNCHANGED <<book, pages, queue, now, sweeps, crashes, ingest, site>>

\* update_book_progress: book.save(), after the sum of the durations when every
\* page was counted completed; a None among the durations raises TypeError,
\* which the function's except clause swallows before book.save()
UbpSave(w) ==
    /\ workers[w].pc \in {"sum", "save"}
    /\ IF workers[w].pc = "sum"
       THEN IF \E p \in PageRows : pages[p].duration = Null
            THEN UNCHANGED book
            ELSE book' = SaveBook([workers[w].lb EXCEPT
                                     !.total_duration = SumDurations(PageRows)], now)
       ELSE book' = SaveBook(workers[w].lb, now)
    /\ workers' = [workers EXCEPT ![w] = IdleWorker]
    /\ returned' = "success"
    /\ UNCHANGED <<pages, queue, now, sweeps, crashes, ingest, site>>

\* the retry test is off by one
RetryOrRaiseOffByOne(w) ==
    IF workers[w].retries <= MaxRetries
    THEN queue (+) SetToBag({Job(workers[w].page, workers[w].retries + 1,
                                 now + Countdown)})
    ELSE queue

\* self.retry(exc=e, countdown=60): a new message while retries are left,
\* the exception itself once request.retries has reached max_retries
RetryOrRaise(w) ==
    IF workers[w].retries < MaxRetries
    THEN queue (+) SetToBag({Job(workers[w].page, workers[w].retries + 1,
                                 now + Countdown)})
    ELSE queue

\* the page is saved failed with str(e), then the task retries
FailSave(w) ==
    /\ workers[w].pc = "fail"
    /\ pages' = [pages EXCEPT ![workers[w].page] =
                   [workers[w].lp EXCEPT !.status = "failed",
                                         !.error = workers[w].err]]
    /\ queue' = RetryOrRaise(w)
    /\ workers' = [workers EXCEPT ![w] = IdleWorker]
    /\ returned' = IF workers[w].retries < MaxRetries THEN "retry" ELSE "raised"
    /\ failed_at' = [failed_at EXCEPT ![workers[w].page] = now]
    /\ UNCHANGED <<book, now, sweeps, crashes, ingest, shelf, desk, player, annex>>

\* retry_failed_pages: a message for every failed page created in the last 24 hours
RetryFailedPages ==
    /\ sweeps < MaxRetrySweeps
    /\ sweeps' = sweeps + 1
    /\ queue' = queue (+) SetToBag({Job(p, 0, now) :
                  p \in {q \in PageRows : /\ pages[q].status = "failed"
                                          /\ pages[q].created_at >= now - RetryWindow}})
    /\ UNCHANGED <<book, pages, workers, now, crashes, returned, ingest, site>>

\* A worker process dies in the middle of a task: the execution stops where it
\* is and writes nothing more. The broker delivers the unacknowledged message
\* again (acks_late) or has dropped it at delivery (the default).
Crash(w) ==
    /\ Busy(w)
    /\ crashes < MaxCrashes
    /\ crashes' = crashes + 1
    /\ workers' = [workers EXCEPT ![w] = IdleWorker]
    /\ \E redelivered \in BOOLEAN :
         queue' = IF redelivered
                  THEN queue (+) SetToBag({Job(workers[w].page, workers[w].retries, now)})
                  ELSE queue
    /\ returned' = "crashed"
    /\ UNCHANGED <<book, pages, now, sweeps, ingest, site>>

\* time passes, up to the horizon
Tick(horizon) ==
    /\ now + Countdown <= horizon
    /\ now' = now + Countdown
    /\ UNCHANGED <<book, pages, queue, workers, sweeps, crashes, returned, ingest, site>>

\* temp_audio, from NamedTemporaryFile(delete=False) to the finally clause:
\* the file is there while update_book_progress runs inside the try block
AudioTemp(w) == workers[w].pc \in {"progress", "sum", "save"}

\* generate_page_audio, run by a worker
GeneratePageAudio(w) ==
    \/ Begin(w)
    \/ MarkProcessing(w)
    \/ EmptyText(w)
    \/ SynthesizeAndSave(w)
    \/ SynthesizeFails(w)
    \/ UbpCount(w)
    \/ UbpSave(w)
    \/ FailSave(w)

\* The workers run the audio jobs of an uploaded book, retries included.
Next ==
    \/ \E w \in Workers : GeneratePageAudio(w)
    \/ Tick(MaxTime)

Spec == Init /\ [][Next]_vars

\* The same with the retry sweep and worker crashes, which put a second
\* message for a page on the queue.
NextSweep ==
    \/ \E w \in Workers : GeneratePageAudio(w) \/ Crash(w)
    \/ RetryFailedPages
    \/ Tick(MaxSweepTime)

SpecSweep == Init /\ [][NextSweep]_vars

(* ------------------------------ upload -------------------------------- *)

Event(name, page) == [name |-> name, page |-> page]

\* yield send_sse_event(name, ...)
Emit(u, name, page) == [u EXCEPT !.events = Append(@, Event(name, page))]

\* except Exception: the temporary file is removed, the error event is sent
Raised(u) == [Emit([u EXCEPT !.temp = FALSE], "error", 0) EXCEPT !.pc = "closed"]

\* StreamingHttpResponse(..., content_type='text/event-stream'): no status is
\* given, the response is 200 OK
StreamingHttpResponse == 200

\* _post_with_sse before the stream: authentication, validation of the file,
\* and its copy to a temporary file; each failure answers with a stream of one
\* error event
UploadRequest ==
    /\ up.pc = "new"
    /\ \E auth \in BOOLEAN, file \in {"none", "not_pdf", "too_large", "pdf"},
          saved \in BOOLEAN :
         LET u == [up EXCEPT !.auth = auth, !.file = file, !.http = StreamingHttpResponse]
         IN up' = IF ~auth \/ file # "pdf" \/ ~saved
                  THEN [Emit(u, "error", 0) EXCEPT !.pc = "closed"]
                  ELSE [u EXCEPT !.pc = "auth", !.temp = TRUE]
    /\ UNCHANGED <<book, pages, queue, workers, now, sweeps, crashes, returned,
                   pdfq, pdf, sweeper, site>>

\* the three status events that open the stream
UploadStatus ==
    /\ up.pc \in {"auth", "validated", "saved"}
    /\ up' = [Emit(up, "status", 0) EXCEPT
                !.pc = CASE up.pc = "auth" -> "validated"
                         [] up.pc = "validated" -> "saved"
                         [] up.pc = "saved" -> "open"]
    /\ UNCHANGED <<book, pages, queue, workers, now, sweeps, crashes, returned,
                   pdfq, pdf, sweeper, site>>

\* pdfplumber counts the pages, or raises; processing_started
UploadOpen ==
    /\ up.pc = "open"
    /\ \/ \E n \in Pages :
            up' = [Emit(up, "processing_started", n) EXCEPT !.n = n, !.pc = "extract"]
       \/ up' = Raised(up)
    /\ UNCHANGED <<book, pages, queue, workers, now, sweeps, crashes, returned,
                   pdfq, pdf, sweeper, site>>

\* the failure branch sends its error event and does not return
AfterReplayNoReturn(u) ==
    IF u.extract = "failed"
    THEN [Emit([u EXCEPT !.temp = FALSE], "error", 0) EXCEPT !.pc = "book"]
    ELSE [Emit([u EXCEPT !.temp = FALSE], "status", 0) EXCEPT !.pc = "book"]

\* After the buffered page_progress events: the temporary file is unlinked; a
\* failed extraction ends the stream with an error event, a successful one
\* goes on with a status event.
AfterReplay(u) ==
    IF u.extract = "failed"
    THEN [Emit([u EXCEPT !.temp = FALSE], "error", 0) EXCEPT !.pc = "closed"]
    ELSE [Emit([u EXCEPT !.temp = FALSE], "status", 0) EXCEPT !.pc = "book"]

\* the buffered events leave the buffer last first
ReplayNextLast(u) ==
    IF u.buffer # <<>>
    THEN [u EXCEPT !.events = Append(@, u.buffer[Len(u.buffer)]),
                   !.buffer = SubSeq(@, 1, Len(@) - 1)]
    ELSE AfterReplay(u)

\* for event in progress_events: yield event
ReplayNext(u) ==
    IF u.buffer # <<>>
    THEN [u EXCEPT !.events = Append(@, Head(u.buffer)), !.buffer = Tail(@)]
    ELSE AfterReplay(u)

\* The extractor calls progress_callback for the pages 1..k, in this order;
\* each call appends a page_progress event to progress_events.
Callbacks(k) == [i \in 1..k |-> Event("page_progress", i)]

\* PDFProcessorGemini.extract_pages_with_gemini: the callback puts a
\* page_progress event in the buffer for every page extracted, k of them before
\* a failure; the stream goes on to its next yield. An extractor that raises
\* ends the stream through the except clause.
UploadExtract ==
    /\ up.pc = "extract"
    /\ \/ \E ok \in BOOLEAN, texts \in [1..up.n -> Texts], k \in 0..up.n :
            /\ ok => k = up.n
            /\ up' = ReplayNext([up EXCEPT
                       !.extract = IF ok THEN "ok" ELSE "failed",
                       !.texts = IF ok THEN texts ELSE <<>>,
                       !.buffer = Callbacks(k),
                       !.pc = "replay"])
       \/ up' = Raised(up)
    /\ UNCHANGED <<book, pages, queue, workers, now, sweeps, crashes, returned,
                   pdfq, pdf, sweeper, site>>

UploadReplay ==
    /\ up.pc = "replay"
    /\ up' = ReplayNext(up)
    /\ UNCHANGED <<book, pages, queue, workers, now, sweeps, crashes, returned,
                   pdfq, pdf, sweeper, site>>

\* Book.objects.create(...), book.save() with the PDF; either may raise
UploadCreateBook ==
    /\ up.pc = "book"
    /\ ~book.exists
    /\ \/ /\ book' = NewBook(up.n, now)
          /\ up' = [Emit(up, "status", 0) EXCEPT !.pc = "pages"]
       \/ /\ \E created \in BOOLEAN :
               book' = IF created THEN NewBook(up.n, now) ELSE book
          /\ up' = Raised(up)
    /\ UNCHANGED <<pages, queue, workers, now, sweeps, crashes, returned,
                   pdfq, pdf, sweeper, site>>

\* the rows 1..i of the pages of the texts
CreatedPages(texts, i) ==
    [p \in Pages |-> IF p <= i THEN NewPage(texts[p], now) ELSE pages[p]]

\* for page_data in result['pages']: BookPage.objects.create(...); a create may
\* raise after i rows; audio_generation_started
UploadCreatePages ==
    /\ up.pc = "pages"
    /\ \E i \in 0..up.n :
         /\ pages' = CreatedPages(up.texts, i)
         /\ up' = IF i = up.n
                  THEN [Emit(up, "audio_generation_started", 0) EXCEPT !.pc = "schedule"]
                  ELSE Raised(up)
    /\ UNCHANGED <<book, queue, workers, now, sweeps, crashes, returned,
                   pdfq, pdf, sweeper, site>>

\* the messages of generate_page_audio.delay(book_id, p) for p in 1..i
Scheduled(i) == queue (+) SetToBag({Job(p, 0, now) : p \in 1..i})

\* for page_num in range(1, total_pages + 1): generate_page_audio.delay(...);
\* a delay may raise after i messages; completed
UploadSchedule ==
    /\ up.pc = "schedule"
    /\ \E i \in 0..up.n :
         /\ queue' = Scheduled(i)
         /\ up' = IF i = up.n
                  THEN [Emit(up, "completed", 0) EXCEPT !.pc = "closed"]
                  ELSE Raised(up)
    /\ UNCHANGED <<book, pages, workers, now, sweeps, crashes, returned,
                   pdfq, pdf, sweeper, site>>

\* The client stops reading: the generator is closed where it is suspended,
\* and GeneratorExit is no Exception, so the except clause does not run.
UploadAbandon ==
    /\ up.pc \in {"auth", "validated", "saved", "open", "extract", "replay",
                  "book", "pages", "schedule"}
    /\ up' = [up EXCEPT !.pc = "abandoned"]
    /\ UNCHANGED <<book, pages, queue, workers, now, sweeps, crashes, returned,
                   pdfq, pdf, sweeper, site>>

UploadStream ==
    \/ UploadRequest
    \/ UploadStatus
    \/ UploadOpen
    \/ UploadExtract
    \/ UploadReplay
    \/ UploadCreateBook
    \/ UploadCreatePages
    \/ UploadSchedule
    \/ UploadAbandon

(* -------------------------- process_book_pdf --------------------------- *)

PdfMessage(r, eta) == [retries |-> r, eta |-> eta]

\* a worker takes a process_book_pdf message: book = Book.objects.get(id=book_id)
PdfBegin ==
    /\ pdf.pc = "idle"
    /\ \E m \in pdfq :
         /\ m.eta <= now
         /\ pdfq' = pdfq \ {m}
         /\ IF ~book.exists
            THEN /\ returned' = "pdf_not_found"
                 /\ UNCHANGED pdf
            ELSE /\ pdf' = [IdlePdf EXCEPT !.pc = "mark", !.retries = m.retries,
                                           !.lb = book]
                 /\ UNCHANGED returned
    /\ UNCHANGED <<book, pages, queue, workers, now, sweeps, crashes, up, sweeper, site>>

\* book.processing_status = 'processing'; book.save()
PdfMark ==
    /\ pdf.pc = "mark"
    /\ LET lb == [pdf.lb EXCEPT !.status = "processing"]
       IN /\ book' = SaveBook(lb, now)
          /\ pdf' = [pdf EXCEPT !.lb = lb, !.pc = "extract"]
    /\ UNCHANGED <<pages, queue, workers, now, sweeps, crashes, returned, up,
                   pdfq, sweeper, site>>

\* PDFProcessor.extract_pages: a failure is raised; after a success
\* book.total_pages is set and the book saved
PdfExtract ==
    /\ pdf.pc = "extract"
    /\ \/ /\ pdf' = [pdf EXCEPT !.extract = "failed", !.err = "extraction failed",
                                !.pc = "fail"]
          /\ UNCHANGED book
       \/ \E n \in Pages : \E texts \in [1..n -> Texts] :
            LET lb == [pdf.lb EXCEPT !.total_pages = n]
            IN /\ book' = SaveBook(lb, now)
               /\ pdf' = [pdf EXCEPT !.extract = "ok", !.lb = lb, !.texts = texts,
                                     !.pc = "pages"]
    /\ UNCHANGED <<pages, queue, workers, now, sweeps, crashes, returned, up,
                   pdfq, sweeper, site>>

\* a BookPage row of the book has the page number
PageNumberTaken(p) == pages[p].exists

\* how many rows the loop creates before a page number is taken
RECURSIVE FreeNumbers(_, _)
FreeNumbers(p, n) ==
    IF p > n \/ PageNumberTaken(p) THEN 0 ELSE 1 + FreeNumbers(p + 1, n)

\* for page_data in result['pages']: BookPage.objects.create(...); a page number
\* that is taken raises
PdfPages ==
    /\ pdf.pc = "pages"
    /\ LET n == pdf.lb.total_pages
           i == FreeNumbers(1, n)
       IN /\ pages' = CreatedPages(pdf.texts, i)
          /\ pdf' = IF i = n THEN [pdf EXCEPT !.pc = "schedule"]
                    ELSE [pdf EXCEPT !.err = "duplicate page", !.pc = "fail"]
    /\ UNCHANGED <<book, queue, workers, now, sweeps, crashes, returned, up,
                   pdfq, sweeper, site>>

\* for page_num in range(1, total_pages + 1): generate_page_audio.delay(...);
\* a delay may raise after i messages; the task returns success
PdfSchedule ==
    /\ pdf.pc = "schedule"
    /\ \E i \in 0..pdf.lb.total_pages :
         /\ queue' = Scheduled(i)
         /\ IF i = pdf.lb.total_pages
            THEN /\ pdf' = IdlePdf
                 /\ returned' = "pdf_success"
            ELSE /\ pdf' = [pdf EXCEPT !.err = "broker error", !.pc = "fail"]
                 /\ UNCHANGED returned
    /\ UNCHANGED <<book, pages, workers, now, sweeps, crashes, up, pdfq, sweeper, site>>

\* except Exception: book = Book.objects.get(id=book_id)
PdfFailRead ==
    /\ pdf.pc = "fail"
    /\ pdf' = [pdf EXCEPT !.lb = book, !.pc = "fail_save"]
    /\ UNCHANGED <<book, pages, queue, workers, now, sweeps, crashes, returned,
                   up, pdfq, sweeper, site>>

\* the book is saved failed with str(e); raise self.retry(exc=e, countdown=60)
PdfFailSave ==
    /\ pdf.pc = "fail_save"
    /\ book' = SaveBook([pdf.lb EXCEPT !.status = "failed", !.error = pdf.err], now)
    /\ pdfq' = IF pdf.retries < MaxRetries
               THEN pdfq \cup {PdfMessage(pdf.retries + 1, now + Countdown)}
               ELSE pdfq
    /\ returned' = IF pdf.retries < MaxRetries THEN "pdf_retry" ELSE "pdf_raised"
    /\ pdf' = IdlePdf
    /\ UNCHANGED <<pages, queue, workers, now, sweeps, crashes, up, sweeper, site>>

ProcessBookPdf ==
    \/ PdfBegin
    \/ PdfMark
    \/ PdfExtract
    \/ PdfPages
    \/ PdfSchedule
    \/ PdfFailRead
    \/ PdfFailSave

(* ------------------------ cleanup_failed_books ------------------------- *)

\* the query with modified_at__lte
StuckInclusive(b) ==
    b.exists /\ b.status = "processing" /\ b.modified_at <= now - StaleWindow

\* Book.objects.filter(processing_status='processing', modified_at__lt=two_hours_ago)
Stuck(b) ==
    b.exists /\ b.status = "processing" /\ b.modified_at < now - StaleWindow

\* the rows the query yields
Loaded(b) == IF Stuck(b) THEN b ELSE NoBook

\* the sweep loads the stuck books
CleanupFind ==
    /\ sweeper.pc = "idle"
    /\ Stuck(book) \/ \E i \in OtherBooks : Stuck(shelf[i])
    /\ sweeper' = [pc |-> "save", lb |-> Loaded(book),
                   others |-> [i \in OtherBooks |-> Loaded(shelf[i])]]
    /\ UNCHANGED <<book, pages, queue, workers, now, sweeps, crashes, returned,
                   up, pdfq, pdf, site>>

\* book.processing_status = 'failed'; book.processing_error = 'Processing timeout'; book.save()
TimedOut(lb) ==
    SaveBook([lb EXCEPT !.status = "failed", !.error = "Processing timeout"], now)

\* for book in stuck_books: the loaded rows are saved failed
CleanupSave ==
    /\ sweeper.pc = "save"
    /\ book' = IF sweeper.lb.exists THEN TimedOut(sweeper.lb) ELSE book
    /\ shelf' = [i \in OtherBooks |-> IF sweeper.others[i].exists
                                      THEN TimedOut(sweeper.others[i])
                                      ELSE shelf[i]]
    /\ sweeper' = IdleSweeper
    /\ UNCHANGED <<pages, queue, workers, now, sweeps, crashes, returned,
                   up, pdfq, pdf, failed_at, desk, player, annex>>

CleanupFailedBooks == CleanupFind \/ CleanupSave

\* more than the staleness window passes at once
LongTick ==
    /\ now <= MaxTime
    /\ now' = now + StaleWindow + Countdown
    /\ UNCHANGED <<book, pages, queue, workers, sweeps, crashes, returned, ingest, site>>

\* Either a PDF is uploaded through the event stream, or process_book_pdf is
\* sent for a book that was stored as uploaded.
InitIngest ==
    /\ pages = [p \in Pages |-> NoPage]
    /\ queue = EmptyBag
    /\ workers = [w \in Workers |-> IdleWorker]
    /\ now = 0
    /\ sweeps = 0
    /\ crashes = 0
    /\ returned = "none"
    /\ pdf = IdlePdf
    /\ sweeper = IdleSweeper
    /\ SiteInit
    /\ \/ /\ book = NoBook
          /\ up = [NoUpload EXCEPT !.pc = "new"]
          /\ pdfq = {}
       \/ /\ book = [NoBook EXCEPT !.exists = TRUE, !.modified_at = 0]
          /\ up = NoUpload
          /\ pdfq = {PdfMessage(0, 0)}

NextIngest ==
    \/ UploadStream
    \/ ProcessBookPdf
    \/ CleanupFailedBooks
    \/ Tick(MaxTime)
    \/ LongTick

SpecIngest == InitIngest /\ [][NextIngest]_vars

\* The same without the staleness sweep: the upload and process_book_pdf with
\* its retries alone.
NextExtraction ==
    \/ UploadStream
    \/ ProcessBookPdf
    \/ Tick(MaxTime)

SpecExtraction == InitIngest /\ [][NextExtraction]_vars

(* ----------------------------- catalogue ------------------------------ *)

\* the statuses of a Book row
BookStatuses == {"uploaded", "processing", "completed", "failed"}

\* BookDetailView.patch: the row is read, the allowed fields are set, book.save()
PatchBook(i) ==
    /\ shelf[i].exists
    /\ shelf[i].modified_at < now
    /\ shelf' = [shelf EXCEPT ![i] = SaveBook(shelf[i], now)]
    /\ UNCHANGED <<book, pages, queue, workers, now, sweeps, crashes, returned, ingest,
                   failed_at, desk, player, annex>>

\* the staleness window passes at once
WindowTick ==
    /\ now <= MaxTime
    /\ now' = now + StaleWindow
    /\ UNCHANGED <<book, pages, queue, workers, sweeps, crashes, returned, ingest, site>>

\* A catalogue of books in every status, none of them being worked on: the
\* book with its pages as the upload left it, and the other books.
InitCatalog ==
    /\ up = NoUpload
    /\ pdfq = {}
    /\ pdf = IdlePdf
    /\ sweeper = IdleSweeper
    /\ \E n \in Pages :
         /\ book = NewBook(n, 0)
         /\ pages = [p \in Pages |-> IF p <= n THEN NewPage(<<"a", " ">>, 0) ELSE NoPage]
    /\ queue = EmptyBag
    /\ workers = [w \in Workers |-> IdleWorker]
    /\ now = 0
    /\ sweeps = 0
    /\ crashes = 0
    /\ returned = "none"
    /\ NoFailure
    /\ NoQuery
    /\ NoListening
    /\ NoAccounts
    /\ NoPatch
    /\ lobby = Unvisited(1, FALSE)
    /\ shelf \in [OtherBooks ->
                    {NoBook} \cup {[NoBook EXCEPT !.exists = TRUE, !.status = st,
                                                  !.modified_at = 0] : st \in BookStatuses}]

\* more than a day passes at once
DayTick ==
    /\ now <= MaxSweepTime
    /\ now' = now + RetryWindow + Countdown
    /\ UNCHANGED <<book, pages, queue, workers, sweeps, crashes, returned, ingest, site>>

\* The audio jobs of an uploaded book and the retry sweep, over more than a day.
NextAmnesty ==
    \/ \E w \in Workers : GeneratePageAudio(w)
    \/ RetryFailedPages
    \/ DayTick

SpecAmnesty == Init /\ [][NextAmnesty]_vars

NextCatalog ==
    \/ CleanupFailedBooks
    \/ \E i \in OtherBooks : PatchBook(i)
    \/ Tick(MaxTime)
    \/ WindowTick

SpecCatalog == InitCatalog /\ [][NextCatalog]_vars

(* ---------------------- double precision floats ----------------------- *)

\* the digits of the significand of a Python float
Precision == 53

\* the limbs of digits a quotient is expanded to before rounding
QuotientLimbs == 5

\* the digits of a limb of the long division and multiplication
LimbDigits == 16

\* 2^k
RECURSIVE Pow2(_)
Pow2(k) ==
    IF k = 0 THEN 1
    ELSE LET h == Pow2(k \div 2) IN IF k % 2 = 0 THEN h * h ELSE 2 * h * h

\* the natural number n in w binary digits, the highest first
Pad(n, w) == [i \in 1..w |-> (n \div Pow2(w - i)) % 2]

\* the binary digits of the natural number n, the highest first
IntBits(n) ==
    IF n = 0 THEN <<>>
    ELSE Pad(n, CHOOSE w \in 1..30 : Pow2(w - 1) <= n /\ n \div 2 < Pow2(w - 1))

\* the natural number of the binary digits
RECURSIVE ToNat(_)
ToNat(bits) ==
    IF Len(bits) = 0 THEN 0
    ELSE IF Len(bits) = 1 THEN bits[1]
    ELSE LET h == Len(bits) \div 2
         IN ToNat(SubSeq(bits, 1, h)) * Pow2(Len(bits) - h)
            + ToNat(SubSeq(bits, h + 1, Len(bits)))

\* what is left of r / b after its first n limbs of binary digits
RECURSIVE RemAfter(_, _, _)
RemAfter(r, b, n) ==
    IF n = 0 THEN r ELSE (RemAfter(r, b, n - 1) * Pow2(LimbDigits)) % b

\* the first n limbs of binary digits of r / b after the point, for r < b
Expand(r, b, n) ==
    [i \in 1..(n * LimbDigits) |->
        Pad((RemAfter(r, b, (i - 1) \div LimbDigits) * Pow2(LimbDigits)) \div b,
            LimbDigits)[((i - 1) % LimbDigits) + 1]]

\* how many zeros the digits start with
LeadingZeros(bits) ==
    Cardinality({i \in 1..Len(bits) : \A j \in 1..i : bits[j] = 0})

\* the digits plus one in the last place, one digit longer on overflow
Increment(bits) ==
    LET zeros == {i \in 1..Len(bits) : bits[i] = 0}
    IN IF zeros = {}
       THEN [i \in 1..(Len(bits) + 1) |-> IF i = 1 THEN 1 ELSE 0]
       ELSE LET last == CHOOSE i \in zeros : \A j \in zeros : j <= i
            IN [i \in 1..Len(bits) |->
                   IF i < last THEN bits[i] ELSE IF i = last THEN 1 ELSE 0]

\* the digits times the small natural number k plus the carry c, a limb of
\* the digits at a time from the lowest
RECURSIVE TimesSmall(_, _, _)
TimesSmall(bits, k, c) ==
    IF Len(bits) <= LimbDigits THEN IntBits(ToNat(bits) * k + c)
    ELSE LET cut == Len(bits) - LimbDigits
             v   == ToNat(SubSeq(bits, cut + 1, Len(bits))) * k + c
         IN TimesSmall(SubSeq(bits, 1, cut), k, v \div Pow2(LimbDigits))
            \o Pad(v % Pow2(LimbDigits), LimbDigits)

\* The float nearest to digits * 2^(-exp), ties to even: the first 53 digits
\* from the first one on, rounded by the digits that follow and by whether
\* anything is left beyond them (sticky). The value is bits * 2^(-exp).
RoundToDouble(digits, exp, sticky) ==
    LET z     == LeadingZeros(digits)
        d     == SubSeq(digits, z + 1, Len(digits))
        short == Len(d) <= Precision
        kept  == IF short THEN d ELSE SubSeq(d, 1, Precision)
        rest  == IF short THEN <<>> ELSE SubSeq(d, Precision + 1, Len(d))
        half  == Len(rest) > 0 /\ rest[1] = 1
        more  == sticky \/ \E i \in 2..Len(rest) : rest[i] = 1
        away  == half /\ (more \/ kept[Len(kept)] = 1)
        e     == exp - Len(rest)
        r     == IF away THEN Increment(kept) ELSE kept
    IN IF Len(r) > Len(kept)
       THEN [bits |-> SubSeq(r, 1, Len(kept)), exp |-> e - 1]
       ELSE [bits |-> r, exp |-> e]

\* a / b in float arithmetic, for naturals a and b > 0
FloatDiv(a, b) ==
    RoundToDouble(IntBits(a \div b) \o Expand(a % b, b, QuotientLimbs),
                  QuotientLimbs * LimbDigits,
                  RemAfter(a % b, b, QuotientLimbs) # 0)

\* x * k in float arithmetic, for a float x and a small natural number k
FloatTimes(x, k) == RoundToDouble(TimesSmall(x.bits, k, 0), x.exp, FALSE)

\* int(x) for a float x >= 0
FloatToInt(x) ==
    IF Len(x.bits) <= x.exp THEN 0
    ELSE ToNat(SubSeq(x.bits, 1, Len(x.bits) - x.exp))

(* ---------------------------- status view ----------------------------- *)

\* the seconds the view assumes for a page
SecondsPerPage == 30

\* f"{n} seconds", f"{n} minutes", f"{n} hours", "Complete!"
Rendered(n, unit) == [n |-> n, unit |-> unit]

\* BookProcessingStatusView.get for a book with the page counts y
StatusOf(y) ==
    LET total_pages == y["pending"] + y["processing"] + y["completed"] + y["failed"]
        pending == y["pending"]
        processing == y["processing"]
        completed == y["completed"]
        failed == y["failed"]
        progress == IF total_pages > 0
                    THEN FloatToInt(FloatTimes(FloatDiv(completed, total_pages), 100))
                    ELSE 0
        pages_remaining == pending + processing
        estimated_seconds == pages_remaining * SecondsPerPage
        estimated_time ==
            IF estimated_seconds < 60
            THEN Rendered(estimated_seconds, "seconds")
            ELSE IF estimated_seconds < 3600
            THEN Rendered(FloatToInt(FloatDiv(estimated_seconds, 60)), "minutes")
            ELSE Rendered(FloatToInt(FloatDiv(estimated_seconds, 3600)), "hours")
    IN [answered |-> TRUE,
        processing_progress |-> progress,
        total_pages |-> total_pages,
        pages_status |-> [pending |-> pending, processing |-> processing,
                          completed |-> completed, failed |-> failed],
        audio_ready |-> (completed = total_pages /\ total_pages > 0),
        pages_with_audio |-> completed,
        estimated_time_remaining |-> IF pages_remaining > 0 THEN estimated_time
                                     ELSE Rendered(0, "Complete!")]

\* GET /api/books/<id>/status/
BookProcessingStatus ==
    /\ reply' = StatusOf(tally)
    /\ UNCHANGED <<book, pages, queue, workers, now, sweeps, crashes, returned, ingest,
                   shelf, failed_at, tally, player, annex>>

\* A book of the catalogue with its pages in any statuses, as many as the
\* bounds allow; nothing else is running.
InitStatus ==
    /\ up = NoUpload
    /\ pdfq = {}
    /\ pdf = IdlePdf
    /\ sweeper = IdleSweeper
    /\ book = NoBook
    /\ pages = [p \in Pages |-> NoPage]
    /\ queue = EmptyBag
    /\ workers = [w \in Workers |-> IdleWorker]
    /\ now = 0
    /\ sweeps = 0
    /\ crashes = 0
    /\ returned = "none"
    /\ shelf = [i \in OtherBooks |-> NoBook]
    /\ NoFailure
    /\ NoListening
    /\ NoAccounts
    /\ NoPatch
    /\ lobby = Unvisited(1, FALSE)
    /\ reply = NoReply
    /\ \E a \in 0..MaxPending, b \in 0..MaxProcessing, c \in 0..MaxCompleted,
          d \in 0..MaxFailed :
         tally = [st \in PageStatuses |->
                    CASE st = "pending" -> a [] st = "processing" -> b
                      [] st = "completed" -> c [] st = "failed" -> d]

NextStatus == BookProcessingStatus

SpecStatus == InitStatus /\ [][NextStatus]_vars

(* --------------------------- progress views --------------------------- *)

\* the Book row with the id i
BookRow(i) == IF i = BookId THEN book ELSE shelf[i]

\* Book.objects.filter(id=book_id, is_active=True).exists()
Active(i) == BookRow(i).exists /\ i \notin inactive

\* a ListeningProgress row as get_or_create inserts it
NewProgress == [current_page |-> 1, total_listened_time |-> 0]

\* The variant of Conflicts of a table without the key: an INSERT never fails.
ConflictsNever(rows) == FALSE

\* the INSERT of a row for a pair that has the rows violates the key (user, book)
Conflicts(rows) == rows # <<>>

\* the thread after it has answered with the status code
Answered(code) == [IdleRequest EXCEPT !.http = code]

\* GET or PUT /api/books/<id>/progress/ arrives: the token is checked and,
\* for PUT, the body validated. The caller 0 has no valid token, the page
\* number 0 stands for a body the serializer rejects.
ProgressRequest(s, verb, u, i, page, listened) ==
    /\ requests[s].pc = "idle"
    /\ asks < MaxAsks
    /\ asks' = asks + 1
    /\ LET r == [IdleRequest EXCEPT !.pc = "book", !.verb = verb, !.user = u, !.book = i]
       IN requests' = [requests EXCEPT ![s] =
                         IF u \notin Users THEN Answered(401)
                         ELSE IF verb = "GET" THEN r
                         ELSE IF page \notin Pages THEN Answered(400)
                         ELSE [r EXCEPT !.page_number = page, !.listened_time = listened]]
    /\ UNCHANGED <<book, pages, queue, workers, now, sweeps, crashes, returned, ingest,
                   shelf, failed_at, desk, listening, inactive, listen_count, issued, annex>>

\* book = get_object_or_404(Book, id=book_id, is_active=True)
ProgressBook(s) ==
    /\ requests[s].pc = "book"
    /\ IF Active(requests[s].book)
       THEN /\ requests' = [requests EXCEPT ![s].pc = "get"]
            /\ issued' = issued \cup {<<requests[s].user, requests[s].book>>}
       ELSE /\ requests' = [requests EXCEPT ![s] = Answered(404)]
            /\ UNCHANGED issued
    /\ UNCHANGED <<book, pages, queue, workers, now, sweeps, crashes, returned, ingest,
                   shelf, failed_at, desk, listening, inactive, listen_count, asks, annex>>

\* get_or_create: self.get(user=user, book=book)
ProgressGet(s) ==
    /\ requests[s].pc = "get"
    /\ LET rows == listening[<<requests[s].user, requests[s].book>>]
       IN requests' = [requests EXCEPT ![s] =
                         IF rows = <<>> THEN [@ EXCEPT !.pc = "create"]
                         ELSE IF Len(rows) = 1
                         THEN [@ EXCEPT !.pc = "update", !.row = 1, !.lp = rows[1]]
                         ELSE Answered(500)]
    /\ UNCHANGED <<book, pages, queue, workers, now, sweeps, crashes, returned, ingest,
                   shelf, failed_at, desk, listening, inactive, listen_count, issued, asks, annex>>

\* get_or_create: self.create(user=user, book=book), and self.get again when
\* the INSERT fails on the key
ProgressCreate(s) ==
    /\ requests[s].pc = "create"
    /\ LET pair == <<requests[s].user, requests[s].book>>
           rows == listening[pair]
       IN IF Conflicts(rows)
          THEN /\ requests' = [requests EXCEPT ![s] =
                                 IF Len(rows) = 1
                                 THEN [@ EXCEPT !.pc = "update", !.row = 1, !.lp = rows[1],
                                                !.conflict = TRUE]
                                 ELSE Answered(500)]
               /\ UNCHANGED listening
          ELSE /\ listening' = [listening EXCEPT ![pair] = Append(rows, NewProgress)]
               /\ requests' = [requests EXCEPT ![s].pc = "update", ![s].row = Len(rows) + 1,
                                               ![s].lp = NewProgress, ![s].created = TRUE]
    /\ UNCHANGED <<book, pages, queue, workers, now, sweeps, crashes, returned, ingest,
                   shelf, failed_at, desk, inactive, listen_count, issued, asks, annex>>

\* the rest of the handler: GET answers; PUT saves the page and the listened
\* time from its copy of the row, counts a listener when it created the row,
\* and answers
ProgressAnswer(s) ==
    /\ requests[s].pc = "update"
    /\ LET r == requests[s]
           pair == <<r.user, r.book>>
           lp == [current_page |-> r.page_number,
                  total_listened_time |-> r.lp.total_listened_time + r.listened_time]
       IN IF r.verb = "GET"
          THEN /\ requests' = [requests EXCEPT ![s] = Answered(200)]
               /\ UNCHANGED <<listening, listen_count>>
          ELSE /\ listening' = [listening EXCEPT ![pair][r.row] = lp]
               /\ listen_count' = [listen_count EXCEPT ![r.book] =
                                     IF r.created THEN @ + 1 ELSE @]
               /\ requests' = [requests EXCEPT ![s] = Answered(200)]
    /\ UNCHANGED <<book, pages, queue, workers, now, sweeps, crashes, returned, ingest,
                   shelf, failed_at, desk, inactive, issued, asks, annex>>

\* DELETE /api/books/<id>/ by the uploader: book.is_active = False; book.save()
DeleteBook(i) ==
    /\ Active(i)
    /\ inactive' = inactive \cup {i}
    /\ IF i = BookId
       THEN book' = SaveBook(book, now) /\ UNCHANGED shelf
       ELSE shelf' = [shelf EXCEPT ![i] = SaveBook(@, now)] /\ UNCHANGED book
    /\ UNCHANGED <<pages, queue, workers, now, sweeps, crashes, returned, ingest,
                   failed_at, desk, listening, requests, listen_count, issued, asks, annex>>

\* The book and one other book in the catalogue, both processed or not; no
\* progress request has arrived.
InitProgress ==
    /\ up = NoUpload
    /\ pdfq = {}
    /\ pdf = IdlePdf
    /\ sweeper = IdleSweeper
    /\ book = NewBook(1, 0)
    /\ pages = [p \in Pages |-> IF p = 1 THEN NewPage(<<"a">>, 0) ELSE NoPage]
    /\ queue = EmptyBag
    /\ workers = [w \in Workers |-> IdleWorker]
    /\ now = 0
    /\ sweeps = 0
    /\ crashes = 0
    /\ returned = "none"
    /\ shelf = [i \in OtherBooks |->
                  IF i = BookId + 1 THEN [NoBook EXCEPT !.exists = TRUE, !.modified_at = 0]
                  ELSE NoBook]
    /\ NoFailure
    /\ NoQuery
    /\ NoListening
    /\ NoAccounts
    /\ NoPatch
    /\ lobby = Unvisited(1, FALSE)

NextProgress ==
    \/ \E s \in Sessions, u \in Callers, i \in BookIds :
         \/ ProgressRequest(s, "GET", u, i, 0, 0)
         \/ \E page \in 0..MaxPages, listened \in 0..MaxListened :
              ProgressRequest(s, "PUT", u, i, page, listened)
    \/ \E s \in Sessions : ProgressBook(s)
    \/ \E s \in Sessions : ProgressGet(s)
    \/ \E s \in Sessions : ProgressCreate(s)
    \/ \E s \in Sessions : ProgressAnswer(s)
    \/ \E i \in BookIds : DeleteBook(i)

SpecProgress == InitProgress /\ [][NextProgress]_vars

(* -------------------------- metadata update --------------------------- *)

\* BookDetailView.patch by the uploader: book = get_object_or_404(Book, ...)
PatchRead ==
    /\ patcher.pc = "idle"
    /\ book.exists
    /\ patcher' = [pc |-> "save", lb |-> book]
    /\ UNCHANGED <<book, pages, queue, workers, now, sweeps, crashes, returned, ingest,
                   shelf, failed_at, desk, player, accounts, outbox, door, lobby>>

\* the allowed fields are set on the loaded row; book.save()
PatchSave ==
    /\ patcher.pc = "save"
    /\ book' = SaveBook(patcher.lb, now)
    /\ patcher' = [pc |-> "idle", lb |-> NoBook]
    /\ UNCHANGED <<pages, queue, workers, now, sweeps, crashes, returned, ingest,
                   shelf, failed_at, desk, player, accounts, outbox, door, lobby>>

(* --------------------------- query endpoints --------------------------- *)

\* the response of a query endpoint to caller c
Visit(view, c, code, body) ==
    [lobby EXCEPT !.view = view, !.caller = c, !.http = code, !.body = body]

\* if not book.is_public: the token is read, and the caller compared with
\* the uploader; a caller without a valid token is caller 0
Denied(c) == ~lobby.is_public /\ (c \notin Users \/ c # lobby.uploader)

\* GET /api/books/<id>/
BookDetail(c) ==
    /\ lobby' = IF ~Active(BookId) THEN Visit("detail", c, 404, NoBody)
                ELSE IF Denied(c) THEN Visit("detail", c, 403, NoBody)
                ELSE Visit("detail", c, 200,
                           [title |-> TRUE, pages |-> {},
                            processing_status |-> book.status])
    /\ UNCHANGED <<book, pages, queue, workers, now, sweeps, crashes, returned, ingest,
                   shelf, failed_at, desk, player, accounts, outbox, door, patcher>>

\* GET /api/books/<id>/pages/
BookPages(c) ==
    /\ lobby' = IF ~Active(BookId) THEN Visit("pages", c, 404, NoBody)
                ELSE IF Denied(c) THEN Visit("pages", c, 403, NoBody)
                ELSE Visit("pages", c, 200,
                           [title |-> TRUE, pages |-> PageRows,
                            processing_status |-> book.status])
    /\ UNCHANGED <<book, pages, queue, workers, now, sweeps, crashes, returned, ingest,
                   shelf, failed_at, desk, player, accounts, outbox, door, patcher>>

\* GET /api/books/<id>/status/ as caller c: the handler reads neither the
\* token nor is_public
BookStatus(c) ==
    /\ lobby' = IF ~Active(BookId) THEN Visit("status", c, 404, NoBody)
                ELSE Visit("status", c, 200,
                           [title |-> TRUE, pages |-> {},
                            processing_status |-> book.status])
    /\ UNCHANGED <<book, pages, queue, workers, now, sweeps, crashes, returned, ingest,
                   shelf, failed_at, desk, player, accounts, outbox, door, patcher>>

\* PATCH /api/books/<id>/ with is_public = b by caller c
PatchVisibility(c, b) ==
    /\ c \in Users
    /\ Active(BookId)
    /\ c = lobby.uploader
    /\ lobby' = [lobby EXCEPT !.is_public = b]
    /\ UNCHANGED <<book, pages, queue, workers, now, sweeps, crashes, returned, ingest,
                   shelf, failed_at, desk, player, accounts, outbox, door, patcher>>

\* A book of one page, uploaded by any user, private or public, in any
\* status of the pipeline; nobody has queried it.
InitQuery ==
    /\ up = NoUpload
    /\ pdfq = {}
    /\ pdf = IdlePdf
    /\ sweeper = IdleSweeper
    /\ \E st \in {"processing", "completed", "failed"} :
         book = [NewBook(1, 0) EXCEPT !.status = st]
    /\ pages = [p \in Pages |-> IF p = 1 THEN NewPage(<<"a">>, 0) ELSE NoPage]
    /\ queue = EmptyBag
    /\ workers = [w \in Workers |-> IdleWorker]
    /\ now = 0
    /\ sweeps = 0
    /\ crashes = 0
    /\ returned = "none"
    /\ shelf = [i \in OtherBooks |-> NoBook]
    /\ NoFailure
    /\ NoQuery
    /\ NoListening
    /\ NoAccounts
    /\ NoPatch
    /\ \E u \in Users, b \in BOOLEAN : lobby = Unvisited(u, b)

NextQuery ==
    \/ \E c \in Callers : BookDetail(c)
    \/ \E c \in Callers : BookPages(c)
    \/ \E c \in Callers : BookStatus(c)
    \/ \E c \in Callers, b \in BOOLEAN : PatchVisibility(c, b)
    \/ DeleteBook(BookId)

SpecQuery == InitQuery /\ [][NextQuery]_vars

(* ---------------------------- passing time ----------------------------- *)

\* Time without end in finitely many states: the clock reads Epoch at every
\* state, and when time passes every stored time moves back by Step instead.
\* A stored time that reaches 0 is older than every window the code compares
\* with, and stays there.
Step == StaleWindow \div 2

Epoch == StaleWindow + Step

Aged(t) == IF t = Null THEN Null ELSE IF t <= Step THEN 0 ELSE t - Step

\* Step seconds pass: the stored times of the rows, of the messages and of
\* the copies the executions hold move back
Elapse ==
    LET AgedBook(b) == [b EXCEPT !.modified_at = Aged(@), !.processed_at = Aged(@)]
        AgedPage(r) == [r EXCEPT !.created_at = Aged(@), !.processed_at = Aged(@)]
        AgedJob(j) == [j EXCEPT !.eta = Aged(@)]
        \* how many messages of the queue are in the set S
        RECURSIVE TotalCopies(_)
        TotalCopies(S) ==
            IF S = {} THEN 0
            ELSE LET j == CHOOSE x \in S : TRUE
                 IN CopiesIn(j, queue) + TotalCopies(S \ {j})
    IN /\ book' = AgedBook(book)
       /\ pages' = [p \in Pages |-> AgedPage(pages[p])]
       /\ queue' = [d \in {AgedJob(j) : j \in BagToSet(queue)} |->
                      TotalCopies({j \in BagToSet(queue) : AgedJob(j) = d})]
       /\ workers' = [w \in Workers |->
                        [workers[w] EXCEPT !.lp = AgedPage(@), !.lb = AgedBook(@)]]
       /\ sweeper' = [sweeper EXCEPT !.lb = AgedBook(@),
                                     !.others = [i \in OtherBooks |-> AgedBook(@[i])]]
       /\ shelf' = [i \in OtherBooks |-> AgedBook(shelf[i])]
       /\ failed_at' = [p \in Pages |-> Aged(failed_at[p])]
       /\ patcher' = [patcher EXCEPT !.lb = AgedBook(@)]
       /\ UNCHANGED <<now, sweeps, crashes, returned, up, pdfq, pdf, desk, player,
                      accounts, outbox, door, lobby>>

\* pages of the book that is followed for ever
LivePages == 1

\* An uploaded book, its pages created and its audio jobs on the queue, at
\* the time Epoch.
InitLive ==
    /\ up = NoUpload
    /\ pdfq = {}
    /\ pdf = IdlePdf
    /\ sweeper = IdleSweeper
    /\ SiteInit
    /\ \E n \in 1..LivePages :
         /\ book = NewBook(n, Epoch)
         /\ pages \in {f \in [Pages -> {NewPage(t, Epoch) : t \in Texts} \cup {NoPage}] :
                         \A p \in Pages : f[p].exists <=> p <= n}
         /\ queue = SetToBag({Job(p, 0, Epoch) : p \in 1..n})
    /\ workers = [w \in Workers |-> IdleWorker]
    /\ now = Epoch
    /\ sweeps = 0
    /\ crashes = 0
    /\ returned = "none"

NextLive ==
    \/ \E w \in Workers : GeneratePageAudio(w)
    \/ CleanupFailedBooks
    \/ PatchRead
    \/ PatchSave
    \/ Elapse

\* Time passes; a worker that can take a step takes it; the sweep runs again
\* and again, and finishes a run it began; a PATCH that loaded the book saves it.
SpecLive ==
    /\ InitLive
    /\ [][NextLive]_vars
    /\ WF_vars(Elapse)
    /\ \A w \in Workers : WF_vars(GeneratePageAudio(w))
    /\ SF_vars(CleanupFind)
    /\ WF_vars(CleanupSave)
    /\ WF_vars(PatchSave)

(* ------------------------------ users app ------------------------------ *)

\* timezone.timedelta(minutes=10)
OtpWindow == 600

\* User.objects.create(name=..., email=email, is_verified=False)
NewUser(t) == [NoUser EXCEPT !.exists = TRUE, !.created_on = t]

\* the row that signup leaves in the table for its instance user: the one
\* User.objects.create inserted, set_otp changes the instance alone
Created(user) == [user EXCEPT !.otp = Null, !.otp_created_at = Null]

\* user.set_otp(otp)
set_otp(user, otp, t) == [user EXCEPT !.otp = otp, !.otp_created_at = t]

\* user.is_otp_valid()[0]
is_otp_valid(user, t) ==
    /\ user.otp # Null
    /\ user.otp_created_at # Null
    /\ ~(t > user.otp_created_at + OtpWindow)

\* user.clear_otp()
clear_otp(user) == [user EXCEPT !.otp = Null, !.otp_created_at = Null]

\* what a request of the users app is answered
Answer(view, e, otp, pw, code, token) ==
    [view |-> view, email |-> e, otp |-> otp, password |-> pw, http |-> code,
     token |-> token]

\* POST signup with the email e; valid is what the serializer finds, otp the
\* code generate_otp draws
Signup(e, valid, otp) ==
    /\ IF ~valid \/ accounts[e].exists
       THEN /\ door' = Answer("signup", e, Null, Null, 400, FALSE)
            /\ UNCHANGED <<accounts, outbox>>
       ELSE LET user == set_otp(NewUser(now), otp, now)
            IN /\ accounts' = [accounts EXCEPT ![e] = Created(user)]
               /\ outbox' = [outbox EXCEPT ![e] = user.otp]
               /\ door' = Answer("signup", e, Null, Null, 201, FALSE)
    /\ UNCHANGED <<book, pages, queue, workers, now, sweeps, crashes, returned, ingest,
                   shelf, failed_at, desk, player, patcher, lobby>>

\* POST verify-otp with the email e, the code otp and the password pw; valid
\* is what the serializer finds
VerifyOtp(e, otp, pw, valid) ==
    /\ LET user == accounts[e]
       IN IF ~valid
          THEN door' = Answer("verify", e, otp, Null, 400, FALSE) /\ UNCHANGED accounts
          ELSE IF ~user.exists
          THEN door' = Answer("verify", e, otp, pw, 404, FALSE) /\ UNCHANGED accounts
          ELSE IF user.is_verified \/ user.otp # otp \/ ~is_otp_valid(user, now)
          THEN door' = Answer("verify", e, otp, pw, 400, FALSE) /\ UNCHANGED accounts
          ELSE /\ accounts' = [accounts EXCEPT ![e] =
                                 [clear_otp(user) EXCEPT !.is_verified = TRUE,
                                                         !.password = pw]]
               /\ door' = Answer("verify", e, otp, pw, 200, TRUE)
    /\ UNCHANGED <<book, pages, queue, workers, now, sweeps, crashes, returned, ingest,
                   shelf, failed_at, desk, player, outbox, patcher, lobby>>

\* POST login with the email e and the password pw
Login(e, pw, valid) ==
    /\ LET user == accounts[e]
       IN door' = IF ~valid THEN Answer("login", e, Null, Null, 400, FALSE)
                  ELSE IF ~user.exists THEN Answer("login", e, Null, pw, 404, FALSE)
                  ELSE IF ~user.is_verified \/ user.password # pw
                  THEN Answer("login", e, Null, pw, 401, FALSE)
                  ELSE Answer("login", e, Null, pw, 200, TRUE)
    /\ UNCHANGED <<book, pages, queue, workers, now, sweeps, crashes, returned, ingest,
                   shelf, failed_at, desk, player, accounts, outbox, patcher, lobby>>

\* No book and nobody signed up.
InitUsers ==
    /\ up = NoUpload
    /\ pdfq = {}
    /\ pdf = IdlePdf
    /\ sweeper = IdleSweeper
    /\ book = NoBook
    /\ pages = [p \in Pages |-> NoPage]
    /\ queue = EmptyBag
    /\ workers = [w \in Workers |-> IdleWorker]
    /\ now = 0
    /\ sweeps = 0
    /\ crashes = 0
    /\ returned = "none"
    /\ SiteInit

NextUsers ==
    \/ \E e \in Emails, valid \in BOOLEAN, otp \in Otps : Signup(e, valid, otp)
    \/ \E e \in Emails, otp \in Otps, pw \in Passwords, valid \in BOOLEAN :
         VerifyOtp(e, otp, pw, valid)
    \/ \E e \in Emails, pw \in Passwords, valid \in BOOLEAN : Login(e, pw, valid)
    \/ Tick(OtpWindow + Countdown)

SpecUsers == InitUsers /\ [][NextUsers]_vars

(* ------------------------------ claims -------------------------------- *)

\* No execution is running and no message is waiting: every job has finished.
Quiescent == (\A w \in Workers : ~Busy(w)) /\ queue = EmptyBag

AllCompleted == \A p \in PageRows : pages[p].status = "completed"

RECURSIVE SumKnownDurations(_)
\* the sum of the pages' durations, a page without a duration counting as 0
SumKnownDurations(S) ==
    IF S = {} THEN 0
    ELSE LET p == CHOOSE q \in S : TRUE
         IN (IF pages[p].duration = Null THEN 0 ELSE pages[p].duration)
            + SumKnownDurations(S \ {p})

\* C1: once every page of a book with total_pages > 0 is completed and every
\* job has finished, the book is completed with progress 100 and total_duration
\* the sum of the pages' durations (none counts as 0), whatever the order in
\* which the pages completed and whether or not some of them have no text.
C1_BookCompletes ==
    (book.total_pages > 0 /\ Quiescent /\ AllCompleted)
        => /\ book.status = "completed"
           /\ book.progress = 100
           /\ book.total_duration = SumKnownDurations(PageRows)

\* C2: whenever no job of the book is in flight, neither running nor waiting,
\* the stored progress is floor(100 * completed_pages / total_pages), and 0
\* without pages.
C2_ProgressIsFloor ==
    Quiescent =>
        book.progress = IF book.total_pages > 0
                        THEN (100 * CountCompleted) \div book.total_pages
                        ELSE 0

\* C3: a completed book has progress 100 and every page of it is completed.
C3_CompletedBook ==
    book.status = "completed" => (book.progress = 100 /\ AllCompleted)

\* Every page has text, so every successful execution runs update_book_progress.
AllText == \A p \in PageRows : ~HasNoText(pages[p].text)

\* C4: once all executions for the pages of a book have finished, each having
\* run update_book_progress, the book's progress and status are the ones
\* computed from the final page statuses: completed with progress 100 exactly
\* when every page ended completed.
C4_RaceFreeProgress ==
    (Quiescent /\ AllText /\ CountCompleted > 0)
        => /\ book.progress = Progress(CountCompleted, CountPages)
           /\ (book.status = "completed" <=> AllCompleted)

\* A worker takes message j off the queue in this step.
Takes(j) == CopiesIn(j, queue') < CopiesIn(j, queue)

\* Worker w ends its execution in this step, by a return or a raise.
Ends(w) == Busy(w) /\ ~Busy(w)' /\ returned' # "crashed"

\* C5: generate_page_audio invoked for a page that is already completed
\* returns success and changes no page and no book; the execution goes no
\* further, so that neither the synthesizer nor the artifact store is called.
C5_SkipIsNoOp ==
    [][\A j \in BagToSet(queue) :
         (Takes(j) /\ pages[j.page].status = "completed")
            => /\ returned' = "already_processed"
               /\ pages' = pages
               /\ book' = book
               /\ workers' = workers]_vars

C5_Witness == returned = "already_processed"

\* The text is empty or only whitespace.
Blank(s) == \A i \in 1..Len(s) : s[i] \in Whitespace

\* C6: an execution on a page whose text is empty or only whitespace never
\* calls the synthesizer or the store and never fails; it ends with the page
\* completed, without audio URL and duration, with 'No text content', and
\* with success returned and nothing put on the queue.
C6_EmptyTextCompletes ==
    /\ [](\A w \in Workers :
            (Busy(w) /\ Blank(workers[w].lp.text))
               => /\ workers[w].pc \in {"mark", "text"}
                  /\ ~workers[w].tts /\ ~workers[w].upload)
    /\ [](\A p \in PageRows :
            Blank(pages[p].text)
               => /\ pages[p].status # "failed"
                  /\ pages[p].audio = NoAudio
                  /\ pages[p].duration = DefaultDuration)
    /\ [][\A w \in Workers :
            (Ends(w) /\ Blank(workers[w].lp.text))
               => /\ pages'[workers[w].page].status = "completed"
                  /\ pages'[workers[w].page].error = "No text content"
                  /\ returned' = "no_text"
                  /\ queue' = queue]_vars

C6_Witness ==
    \E p \in PageRows :
        /\ pages[p].text = <<" ", "\n">>
        /\ pages[p].status = "completed"
        /\ returned = "no_text"

\* C7: a failing execution saves the page failed with the error of that
\* attempt and is retried with a message due 60 later while the message has
\* been retried fewer than 3 times; after the third retry the exception is
\* raised and no message is sent, so that no message is ever a fourth retry.
C7_RetryBound ==
    /\ [](\A j \in BagToSet(queue) : j.retries <= 3)
    /\ [][\A w \in Workers :
            (Ends(w) /\ workers[w].pc = "fail")
               => /\ pages'[workers[w].page].status = "failed"
                  /\ pages'[workers[w].page].error = workers[w].err
                  /\ workers[w].err \in {"tts failed", "upload failed"}
                  /\ IF workers[w].retries < 3
                     THEN /\ queue' = queue (+) SetToBag({Job(workers[w].page,
                                            workers[w].retries + 1, now + 60)})
                          /\ returned' = "retry"
                     ELSE /\ queue' = queue
                          /\ returned' = "raised"]_vars

\* the retries are exhausted: the fourth execution has failed
C7_Witness ==
    /\ returned = "raised"
    /\ \E p \in PageRows : pages[p].status = "failed" /\ pages[p].error = "upload failed"

\* C8: an execution taken up for a page that is pending, processing or failed
\* is not skipped; it marks the page processing and goes on to the text, and
\* when synthesis and upload then succeed the page is completed with its
\* audio URL and duration.
C8_OnlyCompletedSkips ==
    [][/\ \A j \in BagToSet(queue) :
            (Takes(j) /\ pages[j.page].status \in {"pending", "processing", "failed"})
               => /\ returned' = returned
                  /\ \E w \in Workers :
                       /\ ~Busy(w)
                       /\ workers'[w].pc = "mark"
                       /\ workers'[w].page = j.page
       /\ \A w \in Workers :
            (workers[w].pc = "mark" /\ workers'[w] # workers[w] /\ Busy(w)')
               => /\ workers'[w].pc = "text"
                  /\ pages'[workers[w].page].status = "processing"
       /\ \A w \in Workers :
            (workers[w].pc = "text" /\ workers'[w].pc = "progress")
               => /\ pages'[workers[w].page].status = "completed"
                  /\ pages'[workers[w].page].audio = <<BookId, workers[w].page>>
                  /\ pages'[workers[w].page].duration \in Durations]_vars

\* an execution goes on with a page that a crashed execution left processing
C8_Witness ==
    /\ crashes = 1
    /\ sweeps = 0
    /\ \E w \in Workers :
         /\ workers[w].pc = "mark"
         /\ workers[w].lp.status = "processing"
         /\ \A v \in Workers \ {w} : ~Busy(v)

\* C9: a failing execution of generate_page_audio for page p writes page p
\* alone, failed with its error, and leaves every other page and the book as
\* they are; and the book's status becomes failed in no step but the save of
\* the staleness sweep.
C9_OnlySweepFailsBook ==
    [][/\ \A w \in Workers :
            (Ends(w) /\ workers[w].pc = "fail")
               => /\ book' = book
                  /\ pages'[workers[w].page].status = "failed"
                  /\ pages'[workers[w].page].error # NoError
                  /\ \A q \in Pages \ {workers[w].page} : pages'[q] = pages[q]
       /\ (book.status # "failed" /\ book'.status = "failed")
            => (sweeper.pc = "save" /\ sweeper'.pc = "idle")]_vars

\* The extractor has reported failure to the upload stream or to the running
\* process_book_pdf execution.
ExtractionFailed == up.extract = "failed" \/ pdf.extract = "failed"

\* C10: once the extractor has reported failure, the book is not in status
\* processing, no page row is created and no audio job is put on the queue,
\* and the upload stream ends with the error event.
C10_ExtractionFailure ==
    /\ [](ExtractionFailed => book.status # "processing")
    /\ [][ExtractionFailed' => (pages' = pages /\ queue' = queue)]_vars
    /\ []((up.extract = "failed" /\ up.pc = "closed")
             => up.events[Len(up.events)].name = "error")

(* C11 *)

\* every book of the catalogue, by id
Catalogue == [i \in {BookId} \cup OtherBooks |-> IF i = BookId THEN book ELSE shelf[i]]

\* the rows a sweep holds, by id
SweepLoaded(sw) ==
    [i \in {BookId} \cup OtherBooks |-> IF i = BookId THEN sw.lb ELSE sw.others[i]]

\* the book is in processing and was last modified more than 2 hours ago
Stale(b) == b.exists /\ b.status = "processing" /\ b.modified_at + 7200 < now

\* C11: cleanup_failed_books loads exactly the books that are in processing
\* and were last modified more than 2 hours ago, and writes nothing while it
\* loads; it saves exactly the loaded books failed with 'Processing timeout'
\* and leaves every other book and every page as they are; a book it has
\* saved is not stale any more, so that a second sweep right afterwards finds
\* none of them.
C11_SweepExact ==
    [][/\ (sweeper.pc = "idle" /\ sweeper'.pc = "save")
            => /\ \A i \in DOMAIN Catalogue :
                    SweepLoaded(sweeper')[i].exists <=> Stale(Catalogue[i])
               /\ \A i \in DOMAIN Catalogue :
                    Stale(Catalogue[i]) => SweepLoaded(sweeper')[i] = Catalogue[i]
               /\ <<book, shelf, pages>>' = <<book, shelf, pages>>
       /\ (sweeper.pc = "save" /\ sweeper'.pc = "idle")
            => /\ \A i \in DOMAIN Catalogue :
                    IF SweepLoaded(sweeper)[i].exists
                    THEN /\ Catalogue'[i].status = "failed"
                         /\ Catalogue'[i].error = "Processing timeout"
                         /\ ~Stale(Catalogue[i])'
                    ELSE Catalogue'[i] = Catalogue[i]
               /\ pages' = pages]_vars

\* a sweep has failed one book and left alone a book in processing that was
\* modified exactly 2 hours before
C11_Witness ==
    /\ sweeper.pc = "idle"
    /\ \E i, j \in OtherBooks :
         /\ shelf[i].status = "failed" /\ shelf[i].error = "Processing timeout"
         /\ shelf[j].status = "processing" /\ shelf[j].modified_at + 7200 = now

(* C12 *)

\* the failed pages whose failure lies within the last 24 hours
FailedLately ==
    {p \in PageRows : pages[p].status = "failed" /\ failed_at[p] + 86400 >= now}

\* C12: retry_failed_pages puts one generate_page_audio message on the queue
\* for exactly the pages that are failed and whose failure lies within the
\* last 24 hours, none for a page whose failure is older, and writes no page
\* and no book.
C12_AmnestyWindow ==
    [][sweeps' # sweeps
         => /\ queue' = queue (+) SetToBag({Job(p, 0, now) : p \in FailedLately})
            /\ pages' = pages
            /\ book' = book]_vars

(* C13 *)

\* how many events of the stream have the name
Count(evs, name) == Cardinality({i \in 1..Len(evs) : evs[i].name = name})

IsPageProgress(e) == e.name = "page_progress"

\* the stream has ended with the completed event
Successful ==
    up.pc = "closed" /\ up.events # <<>> /\ up.events[Len(up.events)].name = "completed"

\* C13: the stream of a successful upload of an N-page book has exactly one
\* processing_started event, before every page_progress event; its
\* page_progress events are those of the pages 1, 2, ..., N in this order;
\* and it has exactly one completed event, which is its last event.
C13_StreamOrder ==
    Successful =>
        /\ Count(up.events, "processing_started") = 1
        /\ \A i, j \in 1..Len(up.events) :
             (up.events[i].name = "processing_started" /\ IsPageProgress(up.events[j]))
                => i < j
        /\ SelectSeq(up.events, IsPageProgress)
             = [i \in 1..book.total_pages |-> [name |-> "page_progress", page |-> i]]
        /\ Count(up.events, "completed") = 1

C13_Witness == Successful /\ book.total_pages = MaxPages

(* C14 *)

Terminals(evs) == Count(evs, "completed") + Count(evs, "error")

\* C14: a stream that has ended holds exactly one terminal event, completed
\* or error, as its last event; a stream that has not ended holds none; and
\* nothing is emitted once the stream has ended.
C14_OneTerminal ==
    /\ [](up.pc = "closed"
            => /\ Terminals(up.events) = 1
               /\ up.events[Len(up.events)].name \in {"completed", "error"})
    /\ [](up.pc # "closed" => Terminals(up.events) = 0)
    /\ [][up.pc = "closed" => up' = up]_vars

\* the stream has ended with the error of an exception raised after the book
\* was created
C14_Witness ==
    /\ up.pc = "closed"
    /\ book.exists
    /\ up.events[Len(up.events)].name = "error"

(* C15 *)

\* a message for page p is on the queue
Enqueued(p) == \E j \in BagToSet(queue) : j.page = p

\* C15: once audio_generation_started is in the stream, the audio jobs of all
\* the pages 1..total_pages have been put on the queue; and the event comes
\* before completed.
C15_StartedAfterScheduling ==
    \A i \in 1..Len(up.events) :
        up.events[i].name = "audio_generation_started"
           => /\ \A p \in 1..book.total_pages : Enqueued(p)
              /\ \A j \in 1..Len(up.events) :
                   up.events[j].name = "completed" => i < j

(* C16 *)

\* C16: for an upload whose extraction succeeds and in which nothing raises,
\* the ledger at the end of the stream is the same whether the stream was
\* read to its end or given up by the client: the book, its pages 1..N and
\* one audio job for each page.
C16_StreamIsNarration ==
    (/\ up.pc \in {"closed", "abandoned"}
     /\ up.extract = "ok"
     /\ Count(up.events, "error") = 0)
        => /\ book.exists
           /\ PageRows = 1..up.n
           /\ \A p \in 1..up.n : Enqueued(p)

(* C17 *)

\* C17: once the upload has ended, by its last event or by the client giving
\* up the stream, its temporary PDF is gone; and a worker that is not running
\* a page job holds no temporary audio file.
C17_TempFilesRemoved ==
    /\ up.pc \in {"closed", "abandoned"} => ~up.temp
    /\ \A w \in Workers : ~Busy(w) => ~AudioTemp(w)

(* C18 *)

\* C18: an authenticated upload without a file, with a file that is no PDF or
\* with a file above 50MB is answered at once with a 4xx status; nothing is
\* extracted, no book and no page is created, and no job is put on a queue.
C18_ValidationRejected ==
    (up.pc \notin {"none", "new"} /\ up.auth /\ up.file # "pdf")
        => /\ up.http \in 400..499
           /\ up.pc = "closed"
           /\ up.extract = "none"
           /\ ~book.exists
           /\ PageRows = {}
           /\ queue = EmptyBag
           /\ pdfq = {}

(* C19 *)

\* the remaining time Rendered from the seconds s
Estimate(s) ==
    IF s = 0 THEN [n |-> 0, unit |-> "Complete!"]
    ELSE IF s < 60 THEN [n |-> s, unit |-> "seconds"]
    ELSE IF s < 3600 THEN [n |-> s \div 60, unit |-> "minutes"]
    ELSE [n |-> s \div 3600, unit |-> "hours"]

\* C19: the answer of the status query is computed from the page counts of
\* the ledger alone and the query writes nothing: the four counts are those of
\* the ledger and sum to the number of pages, the progress is
\* floor(100 * completed / total) and 0 without pages, audio_ready holds
\* exactly when completed = total > 0, and the remaining time is "Complete!"
\* exactly when no page is pending or processing and otherwise 30 seconds a
\* page, in seconds below 60, whole minutes below 3600, whole hours above.
C19_StatusDerived ==
    /\ [](reply.answered =>
            LET n == reply.pages_status
                total == tally["pending"] + tally["processing"]
                           + tally["completed"] + tally["failed"]
            IN /\ n = [pending |-> tally["pending"], processing |-> tally["processing"],
                       completed |-> tally["completed"], failed |-> tally["failed"]]
               /\ n.pending + n.processing + n.completed + n.failed = reply.total_pages
               /\ reply.total_pages = total
               /\ reply.processing_progress =
                    IF total > 0 THEN (100 * n.completed) \div total ELSE 0
               /\ reply.audio_ready <=> (n.completed = total /\ total > 0)
               /\ reply.estimated_time_remaining = Estimate((n.pending + n.processing) * 30))
    /\ [][reply' # reply => <<book, pages, shelf, tally>>' = <<book, pages, shelf, tally>>]_vars

(* C20 *)

\* the pairs of a user and a book
Pairs == Users \X BookIds

\* C20: whatever progress reads and updates arrive and however they
\* interleave, no pair of a user and a book ever has two ListeningProgress
\* rows, only a pair with an authenticated read or a valid update of an
\* active book has a row, once every request is answered each such pair has
\* exactly one, and no step removes a row.
C20_OneProgressPerPair ==
    /\ [](\A pair \in Pairs :
            /\ Len(listening[pair]) <= 1
            /\ Len(listening[pair]) = 1 => pair \in issued
            /\ (\A s \in Sessions : requests[s].pc = "idle")
                 => (pair \in issued => Len(listening[pair]) = 1))
    /\ [][\A pair \in Pairs : Len(listening'[pair]) >= Len(listening[pair])]_vars

\* two requests of one pair raced to create the row, both hold the one row
\* of the pair, another pair has none
C20_Witness ==
    /\ requests[1].pc = "update" /\ requests[2].pc = "update"
    /\ requests[1].created /\ requests[2].conflict
    /\ <<requests[1].user, requests[1].book>> = <<requests[2].user, requests[2].book>>
    /\ Len(listening[<<requests[1].user, requests[1].book>>]) = 1
    /\ \E pair \in Pairs : pair \notin issued /\ listening[pair] = <<>>

(* C21 *)

\* C21: a verify request for an email that signed up, carrying the code
\* sent for the signup and a valid password no later than 10 minutes after
\* the signup, succeeds: the user is verified, the code cleared, the password
\* set and a token returned.
C21_VerifySucceeds ==
    [][\A e \in Emails :
         (/\ door' # door
          /\ door'.view = "verify" /\ door'.email = e /\ door'.password # Null
          /\ accounts[e].exists /\ ~accounts[e].is_verified
          /\ door'.otp = outbox[e]
          /\ now <= accounts[e].created_on + OtpWindow)
         => (/\ door'.http = 200 /\ door'.token
             /\ accounts'[e].is_verified
             /\ accounts'[e].otp = Null
             /\ accounts'[e].password = door'.password)]_vars

(* C22 *)

\* the status changes of a page the lifecycle allows
Lifecycle ==
    {<<"pending", "processing">>, <<"processing", "completed">>,
     <<"processing", "failed">>, <<"failed", "processing">>,
     <<"processing", "processing">>}

\* C22: the status of a page changes only from pending to processing, from
\* processing to completed or failed, and from failed to processing; a page
\* never goes from pending to completed or failed directly, and a completed
\* page is not taken up again.
C22_PageLifecycle ==
    [][\A p \in Pages :
         pages'[p].status # pages[p].status
           => <<pages[p].status, pages'[p].status>> \in Lifecycle]_vars

(* C23 *)

\* how many messages for page p are on the queue
Messages(p) ==
    LET js == {j \in BagToSet(queue) : j.page = p}
        RECURSIVE Sum(_)
        Sum(S) == IF S = {} THEN 0
                  ELSE LET j == CHOOSE x \in S : TRUE
                       IN CopiesIn(j, queue) + Sum(S \ {j})
    IN Sum(js)

\* the book has the rows of the pages 1..total_pages and nothing else, and
\* one message for each of them
Materialized ==
    /\ PageRows = 1..book.total_pages
    /\ \A p \in Pages : Messages(p) = IF p \in PageRows THEN 1 ELSE 0

\* the book was sent to process_book_pdf and no execution is running or due
PdfDone == up = NoUpload /\ pdf.pc = "idle" /\ pdfq = {}

\* C23: when the upload stream has sent completed, the book exists in status
\* processing with total_pages = N, has the Page rows 1..N and one audio job
\* for each; and once the executions of process_book_pdf for a book are over,
\* retries included, the pages the book has are the rows 1..total_pages with
\* one audio job each.
C23_PagesAndJobs ==
    /\ Successful => /\ book.exists /\ book.status = "processing"
                     /\ book.total_pages = up.n
                     /\ Materialized
    /\ (PdfDone /\ PageRows # {}) => Materialized

(* C24 *)

\* C24: a book in status processing eventually is completed or failed, when
\* the workers keep executing the jobs and the staleness sweep keeps running.
C24_BookSettles ==
    (book.status = "processing") ~> (book.status \in {"completed", "failed"})

(* C25 *)

\* the users whose row for book i exists
Listeners(i) == {u \in Users : listening[<<u, i>>] # <<>>}

\* the users whose row for book i has been written by an update
Updaters(i) == {u \in Listeners(i) : \E k \in 1..Len(listening[<<u, i>>]) :
                                        listening[<<u, i>>][k] # NewProgress}

\* C25: a book's listen_count counts the users with an accepted progress
\* update once each, whether or not they read their progress first: once
\* every request is answered it is at least the number of users whose row an
\* update has written and at most the number of users with a row, and a step
\* changes it only by adding one.
C25_CountedOnce ==
    /\ []((\A s \in Sessions : requests[s].pc = "idle")
            => \A i \in BookIds :
                 /\ Cardinality(Updaters(i)) <= listen_count[i]
                 /\ listen_count[i] <= Cardinality(Listeners(i)))
    /\ [][\A i \in BookIds : listen_count'[i] \in {listen_count[i], listen_count[i] + 1}]_vars

(* C26 *)

\* what the last response says: the endpoint, the caller, the code, the body
Response == <<lobby.view, lobby.caller, lobby.http, lobby.body>>

\* C26: a query of the private, active book by detail, pages or status is
\* answered with the book's data to the uploader alone; every other caller,
\* with a token or without, is denied and the response tells nothing of the
\* book.
C26_PrivateBook ==
    [][(/\ Response' # Response
        /\ ~lobby.is_public
        /\ Active(BookId))
       => IF lobby'.caller = lobby.uploader
          THEN lobby'.http = 200 /\ lobby'.body # NoBody
          ELSE lobby'.http = 403 /\ lobby'.body = NoBody]_vars

(* C27 *)

\* C27: a page that is completed keeps its status, its audio and its
\* duration in every step, whatever jobs for the page run side by side.
C27_CompletedPageFrozen ==
    [][\A p \in Pages :
         pages[p].status = "completed"
           => /\ pages'[p].status = "completed"
              /\ pages'[p].audio = pages[p].audio
              /\ pages'[p].duration = pages[p].duration]_vars

(* C28 *)

\* C28: a book that is completed or failed keeps its status in every step of
\* the pipeline.
C28_TerminalStatus ==
    [][book.status \in {"completed", "failed"} => book'.status = book.status]_vars

(* C29 *)

\* C29: the save of a metadata update leaves the book's status, progress and
\* total duration as the pipeline wrote them, whatever update_book_progress
\* or staleness sweep ran between the update's load and its save.
C29_PatchKeepsPipelineFields ==
    [][(patcher.pc = "save" /\ patcher'.pc = "idle")
       => /\ book'.status = book.status
          /\ book'.progress = book.progress
          /\ book'.total_duration = book.total_duration]_vars

(* C30 *)

\* the upload stream has ended with an error event
EndedInError ==
    up.pc = "closed" /\ up.events # <<>> /\ up.events[Len(up.events)].name = "error"

\* C30: after an upload whose stream ended with an error event there is no
\* Book row of the upload, no Page row and no audio job on the queue.
C30_NoTrace ==
    EndedInError => ~book.exists /\ PageRows = {} /\ queue = EmptyBag

====
